---------------------------- MODULE Spec2Model ----------------------------
(***************************************************************************)
(* The StateMachine registry of pyss/statemachine.py: the state map, the   *)
(* parent map, the children lists and the transition lists, the two        *)
(* registration operations, the lru_cache-memoized structural queries and  *)
(* the dictionary projection.                                              *)
(*                                                                         *)
(* Every call is one action.  A call that raises leaves behind whatever it *)
(* had already assigned, and the exception's type is recorded in `result`. *)
(***************************************************************************)
EXTENDS Integers, Sequences, FiniteSets, TLC

VARIABLES
    states,       \* StateMachine.states: name -> State object
    parent,       \* StateMachine.parent: name -> parent name (or None)
    children,     \* StateMachine.children: the top-level children list
    transitions,  \* StateMachine.transitions: list of Transition objects
    cache,        \* the caches of the four lru_cache wrappers
    result,       \* the last call: its name, arguments, outcome and value
    calls,        \* how many calls of each group were made (bounds the model)
    answered      \* what the caller was answered since the last registration:
                  \* <<query, arguments>> -> outcome and value

vars == <<states, parent, children, transitions, cache, result, calls, answered>>

----------------------------------------------------------------------------
(* Bounds of the model *)

\* register_state calls in one behaviour of a builder that follows no rule
MaxRegister == 2
\* register_transition calls in one behaviour
MaxTransition == 1
\* query calls (ancestors_for .. least_common_ancestor) in one behaviour
MaxQuery == 2
\* to_dict calls in one behaviour
MaxToDict == 2
\* register_state calls in one behaviour of a builder that loads a chart twice
MaxRebuild == 6
\* Length of the lists leaf_for is called with
MaxLeafList == 2

----------------------------------------------------------------------------
(* Values *)

\* Python's None
None == "None"

\* The names the builder gives to states
StateNames == {"A", "B", "C"}

\* What a caller may pass as `parent`: None or a name
ParentArgs == {None} \cup StateNames

\* `while parent:` / `if x:` on a name or None
Truthy(x) == x # None /\ x # ""

BasicState == "BasicState"
CompoundState == "CompoundState"
OrthogonalState == "OrthogonalState"
HistoryState == "HistoryState"
FinalState == "FinalState"

Kinds == {BasicState, CompoundState, OrthogonalState, HistoryState, FinalState}

\* The State objects the builder constructs: for every name the classes it
\* is given (a name registered twice may come with another class)
StatePool ==
    {<<"A", CompoundState>>, <<"A", FinalState>>,
     <<"B", OrthogonalState>>, <<"B", BasicState>>,
     <<"C", BasicState>>, <<"C", HistoryState>>}

\* The classes that inherit CompositeStateMixin (children, add_child)
CompositeStateMixin == {CompoundState, OrthogonalState}

\* The classes that inherit TransitionStateMixin (transitions, add_transition)
TransitionStateMixin == {BasicState, CompoundState, OrthogonalState}

\* A freshly constructed State object of class `kind`.  A class without
\* the mixin has no such attribute: its list below stays empty and is only
\* ever read through getattr(..., 'children', []).
NewState(kind) == [kind |-> kind, children |-> <<>>, transitions |-> <<>>]

\* The dict a state renders itself into (State.to_dict and its overrides);
\* only the 'name' key is kept, it is what tells two such dicts apart.
StateToDict(name) == "{'name': '" \o name \o "'}"

Dicts == {StateToDict(n) : n \in StateNames}

\* An element of a children list: a name, or the dict to_dict put in its place
IsDict(e) == e \in Dicts


\* dict[key] = value
Put(f, key, value) ==
    [k \in DOMAIN f \cup {key} |-> IF k = key THEN value ELSE f[k]]

\* What a call leaves in `result`
Returned(op, args, value) ==
    [op |-> op, args |-> args, outcome |-> "ok", value |-> value, iters |-> 0]

Raised(op, args, error) ==
    [op |-> op, args |-> args, outcome |-> error, value |-> None, iters |-> 0]

\* What the body of a function produces: a value, or an exception, or no
\* end.  `iters` counts the executions of the body of its while loop.
Ok(value, iters) == [outcome |-> "ok", value |-> value, iters |-> iters]

Err(error, iters) == [outcome |-> error, value |-> None, iters |-> iters]

\* A call that never returns: the single thread of the program is stuck in it
Diverges == "diverges"

Idle == result.outcome # Diverges

----------------------------------------------------------------------------
(* StateMachine.__init__ *)

Init ==
    /\ states = <<>>
    /\ parent = <<>>
    /\ children = <<>>
    /\ transitions = <<>>
    /\ cache = [ancestors_for |-> <<>>, descendants_for |-> <<>>,
                depth_of |-> <<>>, least_common_ancestor |-> <<>>]
    /\ result = Returned("__init__", <<>>, None)
    /\ calls = [register_state |-> 0, register_transition |-> 0,
                query |-> 0, to_dict |-> 0]
    /\ answered = <<>>

----------------------------------------------------------------------------
(* StateMachine.register_state *)

\* CompositeStateMixin.add_child on the state object `obj`
add_child(obj, state_name) ==
    [obj EXCEPT !.children = Append(@, state_name)]

\* register_state(state, parent) with a freshly constructed `state` of
\* class `kind` named `name`
register_state(name, kind, p) ==
    LET states1 == Put(states, name, NewState(kind))
        parent1 == Put(parent, name, p)
        args == <<name, kind, p>>
    IN  /\ Idle
        /\ calls' = [calls EXCEPT !.register_state = @ + 1]
        /\ parent' = parent1
        /\ IF parent1[name] \in DOMAIN states1
           THEN \* parent_state is not None
                IF states1[parent1[name]].kind \in CompositeStateMixin
                THEN /\ states' = [states1 EXCEPT
                                     ![parent1[name]] = add_child(@, name)]
                     /\ result' = Returned("register_state", args, None)
                     /\ UNCHANGED children
                ELSE \* the parent's class has no add_child
                     /\ states' = states1
                     /\ result' = Raised("register_state", args, "AttributeError")
                     /\ UNCHANGED children
           ELSE /\ states' = states1
                /\ children' = Append(children, name)
                /\ result' = Returned("register_state", args, None)
        /\ UNCHANGED <<transitions, cache>>

----------------------------------------------------------------------------
(* Transition.__init__ and StateMachine.register_transition *)

\* The transitions the builder constructs: <<from_state, to_state, event>>,
\* one internal, one eventless, one with both a target and an event
TransitionPool ==
    {<<"A", None, "go">>, <<"B", "A", None>>, <<"C", "A", "go">>}

\* What a constructor or a query leaves in `result`
Answer(op, args, out) == [op |-> op, args |-> args] @@ out

\* Transition.__init__ as it would be with `or` in its test: a target and
\* an event are both required
Transition_needs_both(id, from_state, to_state, event) ==
    IF to_state = None \/ event = None
    THEN Err("ValueError", 0)
    ELSE Ok([id |-> id, from_state |-> from_state, to_state |-> to_state,
             event |-> event], 0)

\* Transition(from_state, to_state, event): the object, or the ValueError.
\* Transition defines no __eq__, so two objects are told apart by identity:
\* `id` is the number of the construction.
Transition(id, from_state, to_state, event) ==
    IF to_state = None /\ event = None
    THEN Err("ValueError", 0)
    ELSE Ok([id |-> id, from_state |-> from_state, to_state |-> to_state,
             event |-> event], 0)

\* The property Transition.internal
internal(transition) == transition.to_state = None

\* The property Transition.eventless
eventless(transition) == transition.event = None

\* A call of the constructor Transition(from_state, to_state, event); the
\* object is left in `result`
NewTransition(from_state, to_state, event) ==
    /\ Idle
    /\ result' = Answer("Transition", <<from_state, to_state, event>>,
                        Transition(calls.register_transition + 1,
                                   from_state, to_state, event))
    /\ UNCHANGED <<states, parent, children, transitions, cache, calls>>

\* TransitionStateMixin.add_transition on the state object `obj`
add_transition(obj, transition) ==
    [obj EXCEPT !.transitions = Append(@, transition)]

\* register_transition as it would be with the lookup self.states.get(...)
\* and a test for None: an unknown from_state is passed over in silence
register_transition_lenient(transition) ==
    LET from == transition.from_state
        args == <<from, transition.to_state, transition.event>>
    IN  /\ Idle
        /\ calls.register_transition < MaxTransition
        /\ calls' = [calls EXCEPT !.register_transition = @ + 1]
        /\ transitions' = Append(transitions, transition)
        /\ IF from \notin DOMAIN states
           THEN /\ result' = Returned("register_transition", args, None)
                /\ UNCHANGED states
           ELSE IF states[from].kind \notin TransitionStateMixin
           THEN /\ result' = Raised("register_transition", args, "AttributeError")
                /\ UNCHANGED states
           ELSE /\ states' = [states EXCEPT ![from] = add_transition(@, transition)]
                /\ result' = Returned("register_transition", args, None)
        /\ UNCHANGED <<parent, children, cache>>

\* register_transition(transition)
register_transition(transition) ==
    LET from == transition.from_state
        args == <<from, transition.to_state, transition.event>>
    IN  /\ Idle
        /\ calls.register_transition < MaxTransition
        /\ calls' = [calls EXCEPT !.register_transition = @ + 1]
        /\ transitions' = Append(transitions, transition)
        /\ IF from \notin DOMAIN states
           THEN /\ result' = Raised("register_transition", args, "KeyError")
                /\ UNCHANGED states
           ELSE IF states[from].kind \notin TransitionStateMixin
           THEN \* the state's class has no add_transition
                /\ result' = Raised("register_transition", args, "AttributeError")
                /\ UNCHANGED states
           ELSE /\ states' = [states EXCEPT ![from] = add_transition(@, transition)]
                /\ result' = Returned("register_transition", args, None)
        /\ UNCHANGED <<parent, children, cache>>

----------------------------------------------------------------------------
(* The memoized structural queries *)

\* The loop of ancestors_for (lines 278-280), entered with `parent` = p.
\* The walk reads only keys of self.parent, so once the body has run more
\* often than there are keys a key has come twice and the loop never ends.
RECURSIVE ancestors_loop(_, _, _)
ancestors_loop(ancestors, p, iters) ==
    IF ~Truthy(p)
    THEN Ok(ancestors, iters)
    ELSE IF iters > Cardinality(DOMAIN parent)
    THEN Err(Diverges, iters)
    ELSE IF p \notin DOMAIN parent
    THEN Err("KeyError", iters + 1)
    ELSE ancestors_loop(Append(ancestors, p), parent[p], iters + 1)

\* ancestors_for as it would be with the walk started at the state itself
\* (parent = state) instead of at its parent
ancestors_for_from_self(state) ==
    IF state \notin DOMAIN parent
    THEN Err("KeyError", 0)
    ELSE ancestors_loop(<<>>, state, 0)

\* ancestors_for as it would be with self.parent.get(state) in place of
\* self.parent[state]: a name without an entry has no ancestors
ancestors_for_get(state) ==
    IF state \notin DOMAIN parent
    THEN Ok(<<>>, 0)
    ELSE ancestors_loop(<<>>, parent[state], 0)

\* The body of ancestors_for
ancestors_for(state) ==
    IF state \notin DOMAIN parent
    THEN Err("KeyError", 0)
    ELSE ancestors_loop(<<>>, parent[state], 0)

\* getattr(self.states[state], 'children', [])
children_of(state) ==
    IF states[state].kind \in CompositeStateMixin
    THEN states[state].children
    ELSE <<>>

\* The number of entries of all children lists of composite states
SumLen(S) ==
    Cardinality(UNION {{<<n, i>> : i \in 1..Len(children_of(n))} : n \in S})

\* 2^edges for the edges of the children relation, 2^30 where the model's
\* 32-bit integers cannot hold it
paths_bound ==
    LET edges == SumLen(DOMAIN states)
    IN  IF edges < 30 THEN 2 ^ edges ELSE 2 ^ 30

\* What the loop body (lines 292-296) appends while it pops the queued
\* states queue[lo..hi]: their children lists, one after the other
RECURSIVE children_between(_, _, _)
children_between(queue, lo, hi) ==
    IF lo > hi
    THEN <<>>
    ELSE IF lo = hi
    THEN children_of(queue[lo])
    ELSE LET mid == (lo + hi) \div 2
         IN  children_between(queue, lo, mid) \o children_between(queue, mid + 1, hi)

\* The loop of descendants_for (lines 291-296), one level of the walk at a
\* time: the states now in the queue are popped in their order, and what
\* the loop appended meanwhile is the queue they leave.  Every execution of
\* the body pops the end of one path of the children relation that starts
\* at the queried state; without a cycle there are at most 2^edges such
\* paths, so a loop that has run longer never ends.
RECURSIVE descendants_loop(_, _, _)
descendants_loop(descendants, states_to_consider, iters) ==
    IF states_to_consider = <<>>
    THEN Ok(descendants, iters)
    ELSE IF iters > paths_bound
    THEN Err(Diverges, iters)
    ELSE LET queue == states_to_consider
             failing == {i \in 1..Len(queue) :
                            IsDict(queue[i]) \/ queue[i] \notin DOMAIN states}
         IN  IF failing # {}
             THEN LET first == CHOOSE i \in failing : \A j \in failing : i <= j
                  IN  IF IsDict(queue[first])
                      THEN Err("TypeError", iters + first)  \* unhashable type: 'dict'
                      ELSE Err("KeyError", iters + first)
             ELSE LET appended == children_between(queue, 1, Len(queue))
                  IN  descendants_loop(descendants \o appended, appended,
                                       iters + Len(queue))

\* The body of descendants_for
descendants_for(state) == descendants_loop(<<>>, <<state>>, 0)

\* The default maxsize of functools.lru_cache, which @lru_cache() takes
lru_maxsize == 128

\* A cache of an lru_cache wrapper is the list of its entries, the least
\* recently used first
cache_keys(memo) == {memo[i].key : i \in 1..Len(memo)}

cache_get(memo, key) == memo[CHOOSE i \in 1..Len(memo) : memo[i].key = key].value

\* The entries of `memo` other than the one of `key`, in their order
cache_without(memo, key) == SelectSeq(memo, LAMBDA e : e.key # key)

\* A call through an lru_cache wrapper whose cache is `memo`: a hit returns
\* the stored value without running the body and makes the entry the most
\* recently used; a miss runs the body and stores what it returns, in the
\* place of the least recently used entry when the cache is full; an
\* exception is not stored.  Gives the call's outcome and the cache after
\* the call.
lru_cache(memo, key, body) ==
    IF key \in cache_keys(memo)
    THEN [out |-> Ok(cache_get(memo, key), 0),
          memo |-> Append(cache_without(memo, key),
                          [key |-> key, value |-> cache_get(memo, key)])]
    ELSE [out |-> body,
          memo |-> IF body.outcome # "ok"
                   THEN memo
                   ELSE Append(IF Len(memo) >= lru_maxsize THEN Tail(memo) ELSE memo,
                               [key |-> key, value |-> body.value])]

\* self.ancestors_for(state) as a caller sees it, with the cache `memo`
cached_ancestors_for(memo, state) == lru_cache(memo, state, ancestors_for(state))

\* The body of depth_of run with the ancestors cache `memo`, and that
\* cache after it
depth_of(memo, state) ==
    IF state = None
    THEN [out |-> Ok(0, 0), memo |-> memo]
    ELSE LET a == cached_ancestors_for(memo, state)
         IN  IF a.out.outcome = "ok"
             THEN [out |-> Ok(Len(a.out.value) + 1, a.out.iters), memo |-> a.memo]
             ELSE [out |-> a.out, memo |-> a.memo]

\* The scan as it would be over reversed(s1_anc): the farthest ancestor of
\* s1 that is also one of s2
RECURSIVE first_common_farthest(_, _)
first_common_farthest(s1_anc, s2_anc) ==
    IF s1_anc = <<>>
    THEN None
    ELSE IF \E j \in 1..Len(s2_anc) : s2_anc[j] = s1_anc[Len(s1_anc)]
    THEN s1_anc[Len(s1_anc)]
    ELSE first_common_farthest(SubSeq(s1_anc, 1, Len(s1_anc) - 1), s2_anc)

\* for state in s1_anc: if state in s2_anc: return state
RECURSIVE first_common(_, _)
first_common(s1_anc, s2_anc) ==
    IF s1_anc = <<>>
    THEN None
    ELSE IF \E j \in 1..Len(s2_anc) : s2_anc[j] = Head(s1_anc)
    THEN Head(s1_anc)
    ELSE first_common(Tail(s1_anc), s2_anc)

\* The body of least_common_ancestor run with the ancestors cache `memo`,
\* and that cache after it
least_common_ancestor(memo, s1, s2) ==
    LET a1 == cached_ancestors_for(memo, s1)
    IN  IF a1.out.outcome # "ok"
        THEN [out |-> a1.out, memo |-> a1.memo]
        ELSE LET a2 == cached_ancestors_for(a1.memo, s2)
             IN  IF a2.out.outcome # "ok"
                 THEN [out |-> a2.out, memo |-> a2.memo]
                 ELSE [out |-> Ok(first_common(a1.out.value, a2.out.value),
                                  a1.out.iters + a2.out.iters),
                       memo |-> a2.memo]

\* keep after the inner loop of leaf_for (lines 337-340), the reverse of the
\* test: keep only a state with a descendant among `names`
RECURSIVE keep_inverted(_, _)
keep_inverted(descendants, names) ==
    /\ descendants # <<>>
    /\ \/ Head(descendants) \in {names[i] : i \in 1..Len(names)}
       \/ keep_inverted(Tail(descendants), names)

\* keep after the inner loop of leaf_for, the test left out
keep_always(descendants, names) == TRUE

\* keep after the inner loop of leaf_for (lines 336-340): False as soon as a
\* descendant is in `names`, the list leaf_for was called with
RECURSIVE keep(_, _)
keep(descendants, names) ==
    IF descendants = <<>>
    THEN TRUE
    ELSE IF Head(descendants) \in {names[i] : i \in 1..Len(names)}
    THEN FALSE
    ELSE keep(Tail(descendants), names)

\* The outer loop of leaf_for (lines 335-342) over `rest`, the elements not
\* yet visited: descendants_for is called through its lru_cache for every
\* element, and what it raises ends leaf_for
RECURSIVE leaf_loop(_, _, _, _)
leaf_loop(memo, leaves, rest, names) ==
    IF rest = <<>>
    THEN [out |-> Ok(leaves, Len(names)), memo |-> memo]
    ELSE LET state == Head(rest)
             d == lru_cache(memo, state, descendants_for(state))
         IN  IF d.out.outcome # "ok"
             THEN [out |-> d.out, memo |-> d.memo]
             ELSE leaf_loop(d.memo,
                            IF keep(d.out.value, names)
                            THEN Append(leaves, state)
                            ELSE leaves,
                            Tail(rest), names)

\* StateMachine.leaf_for, given the cache of descendants_for
leaf_for(memo, names) == leaf_loop(memo, <<>>, names, names)

CanQuery ==
    /\ Idle
    /\ calls' = [calls EXCEPT !.query = @ + 1]
    /\ UNCHANGED <<states, parent, children, transitions>>

\* A call of StateMachine.ancestors_for
AncestorsFor(state) ==
    LET r == cached_ancestors_for(cache.ancestors_for, state)
    IN  /\ CanQuery
        /\ cache' = [cache EXCEPT !.ancestors_for = r.memo]
        /\ result' = Answer("ancestors_for", <<state>>, r.out)

\* A call of StateMachine.descendants_for
DescendantsFor(state) ==
    LET r == lru_cache(cache.descendants_for, state, descendants_for(state))
    IN  /\ CanQuery
        /\ cache' = [cache EXCEPT !.descendants_for = r.memo]
        /\ result' = Answer("descendants_for", <<state>>, r.out)

\* A call of StateMachine.depth_of
DepthOf(state) ==
    LET hit == state \in cache_keys(cache.depth_of)
        body == depth_of(cache.ancestors_for, state)
        r == lru_cache(cache.depth_of, state, body.out)
    IN  /\ CanQuery
        /\ cache' = [cache EXCEPT
                       !.depth_of = r.memo,
                       !.ancestors_for = IF hit THEN @ ELSE body.memo]
        /\ result' = Answer("depth_of", <<state>>, r.out)

\* A call of StateMachine.least_common_ancestor
LeastCommonAncestor(s1, s2) ==
    LET hit == <<s1, s2>> \in cache_keys(cache.least_common_ancestor)
        body == least_common_ancestor(cache.ancestors_for, s1, s2)
        r == lru_cache(cache.least_common_ancestor, <<s1, s2>>, body.out)
    IN  /\ CanQuery
        /\ cache' = [cache EXCEPT
                       !.least_common_ancestor = r.memo,
                       !.ancestors_for = IF hit THEN @ ELSE body.memo]
        /\ result' = Answer("least_common_ancestor", <<s1, s2>>, r.out)

\* A call of StateMachine.leaf_for
LeafFor(names) ==
    LET r == leaf_for(cache.descendants_for, names)
    IN  /\ CanQuery
        /\ cache' = [cache EXCEPT !.descendants_for = r.memo]
        /\ result' = Answer("leaf_for", <<names>>, r.out)

----------------------------------------------------------------------------
(* StateMachine.to_dict *)

\* d['states'] = self.children and CompositeStateMixin.to_dict's
\* {'states': self.children} hand out the lists themselves, not copies: a
\* list on the work stack is named by its owner, the machine or a state.
Machine == "<StateMachine>"

\* The list owned by `owner`, the registry being the pair <<st, top>>
list_of(st, top, owner) ==
    IF owner = Machine THEN top ELSE st[owner].children

\* statelist[i] = value, on the list owned by `owner`
set_item(st, top, owner, i, value) ==
    IF owner = Machine
    THEN [st |-> st, top |-> [top EXCEPT ![i] = value]]
    ELSE [st |-> [st EXCEPT ![owner].children[i] = value], top |-> top]

\* The loops of lines 355-361: `expand` is the while loop over the stack
\* statelist_to_expand, `expand_list` the for loop over the popped list from
\* index i on.  Gives the outcome and the state map and top-level list the
\* loops leave behind.
RECURSIVE expand(_, _, _)
RECURSIVE expand_list(_, _, _, _, _)
expand_list(st, top, stack, owner, i) ==
    LET statelist == list_of(st, top, owner)
    IN  IF i > Len(statelist)
        THEN expand(st, top, stack)
        ELSE LET state == statelist[i]
             IN  IF IsDict(state)
                 THEN [outcome |-> "TypeError", st |-> st, top |-> top]
                 ELSE IF state \notin DOMAIN st
                 THEN [outcome |-> "KeyError", st |-> st, top |-> top]
                 ELSE LET after == set_item(st, top, owner, i, StateToDict(state))
                          new_statelist ==
                              IF after.st[state].kind \in CompositeStateMixin
                              THEN after.st[state].children
                              ELSE <<>>
                      IN  expand_list(after.st, after.top,
                                      IF Len(new_statelist) > 0
                                      THEN Append(stack, state)
                                      ELSE stack,
                                      owner, i + 1)

expand(st, top, stack) ==
    IF stack = <<>>
    THEN [outcome |-> "ok", st |-> st, top |-> top]
    ELSE expand_list(st, top, SubSeq(stack, 1, Len(stack) - 1),
                     stack[Len(stack)], 1)

\* to_dict(): the value returned is the dict whose 'states' is the
\* top-level list itself
to_dict ==
    LET r == expand(states, children, <<Machine>>)
    IN  /\ Idle
        /\ calls.to_dict < MaxToDict
        /\ calls' = [calls EXCEPT !.to_dict = @ + 1]
        /\ states' = r.st
        /\ children' = r.top
        /\ result' = IF r.outcome = "ok"
                     THEN Returned("to_dict", <<>>, r.top)
                     ELSE Raised("to_dict", <<>>, r.outcome)
        /\ UNCHANGED <<parent, transitions, cache>>

----------------------------------------------------------------------------
(* Specifications *)

\* The call recorded in `result` is a call of `op`
Called(op) == result.op = op

\* The caller's record of answers: a registration empties it, a query adds
\* the answer it was just given
Forgotten == answered' = <<>>

Recorded ==
    answered' = Put(answered, <<result'.op, result'.args>>,
                    [outcome |-> result'.outcome, value |-> result'.value])

\* The builder registers any state under any parent name, in any order
RegisterState ==
    \E state \in StatePool, p \in ParentArgs :
        /\ calls.register_state < MaxRegister
        /\ register_state(state[1], state[2], p)
        /\ Forgotten

\* The builder registers every name once, under any parent name
RegisterNewState ==
    \E state \in StatePool, p \in ParentArgs :
        /\ state[1] \notin DOMAIN states
        /\ register_state(state[1], state[2], p)
        /\ Forgotten

\* The builder registers states as the documentation asks: every name once,
\* a child after its parent, the parent a composite state
RegisterValidState ==
    \E state \in StatePool, p \in ParentArgs :
        /\ state[1] \notin DOMAIN states
        /\ p # None => p \in DOMAIN states /\ states[p].kind \in CompositeStateMixin
        /\ register_state(state[1], state[2], p)
        /\ Forgotten

\* The registrations <<name, class, parent>> of a builder that loads the
\* chart B > A > C and then the changed chart A > B > D
RebuildPool ==
    {<<"B", OrthogonalState, None>>, <<"A", CompoundState, "B">>,
     <<"C", BasicState, "A">>,
     <<"A", CompoundState, None>>, <<"B", OrthogonalState, "A">>,
     <<"D", BasicState, "B">>}

\* That builder registers a state, a registered one only under another parent
RegisterAgain ==
    \E r \in RebuildPool :
        /\ calls.register_state < MaxRebuild
        /\ r[1] \in DOMAIN parent => parent[r[1]] # r[3]
        /\ register_state(r[1], r[2], r[3])
        /\ Forgotten

\* The builder constructs a transition and registers it
RegisterTransition ==
    \E a \in TransitionPool :
        LET t == Transition(calls.register_transition + 1, a[1], a[2], a[3])
        IN  /\ t.outcome = "ok"
            /\ register_transition(t.value)
            /\ Forgotten

\* The interpreter has query calls left
QueryBudget == calls.query < MaxQuery

\* The interpreter calls a memoized query
Query ==
    \/ \E state \in StateNames :
           QueryBudget /\ AncestorsFor(state) /\ Recorded
    \/ \E state \in StateNames :
           QueryBudget /\ DescendantsFor(state) /\ Recorded
    \/ \E state \in StateNames \cup {None} :
           QueryBudget /\ DepthOf(state) /\ Recorded
    \/ \E s1, s2 \in StateNames :
           QueryBudget /\ LeastCommonAncestor(s1, s2) /\ Recorded

\* The build phase: registrations only
NextBuild ==
    \/ RegisterState
    \/ RegisterTransition

SpecBuild == Init /\ [][NextBuild]_vars

\* The build phase of a builder that registers no name twice
NextOnce ==
    \/ RegisterNewState
    \/ RegisterTransition

SpecOnce == Init /\ [][NextOnce]_vars

\* Registrations, of every name once, and queries in any order
NextQuery ==
    \/ RegisterNewState
    \/ Query

SpecQuery == Init /\ [][NextQuery]_vars

\* Valid registrations and queries in any order
NextValid ==
    \/ RegisterValidState
    \/ Query

SpecValid == Init /\ [][NextValid]_vars

\* Registrations, projections and descendant queries in any order
NextDict ==
    \/ RegisterState
    \/ to_dict /\ UNCHANGED answered
    \/ \E state \in StateNames :
           QueryBudget /\ DescendantsFor(state) /\ Recorded

SpecDict == Init /\ [][NextDict]_vars

\* The targets and events a transition is constructed with: absent, or a
\* name (the empty one too) and an event
TargetArgs == {None, "", "A"}
EventArgs == {None, "go"}

\* Registrations of new names, constructions of transitions from any
\* arguments and registrations of the builder's transitions
NextTransition ==
    \/ RegisterNewState
    \/ \E to_state \in TargetArgs, event \in EventArgs :
           NewTransition("A", to_state, event) /\ UNCHANGED answered
    \/ RegisterTransition

SpecTransition == Init /\ [][NextTransition]_vars

\* The arguments of ancestors_for: the names, the absent and the empty name
AncestorArgs == StateNames \cup {None, ""}

\* Registrations of new names and calls of ancestors_for
NextAbsent ==
    \/ RegisterNewState
    \/ \E state \in AncestorArgs :
           QueryBudget /\ AncestorsFor(state) /\ Recorded

SpecAbsent == Init /\ [][NextAbsent]_vars

\* The lists of names leaf_for is called with
LeafLists == UNION {[1..n -> StateNames] : n \in 0..MaxLeafList}

\* Registrations of new names under any parent argument, and the calls of
\* descendants_for and leaf_for
NextLeaf ==
    \/ RegisterNewState
    \/ \E state \in StateNames :
           QueryBudget /\ DescendantsFor(state) /\ Recorded
    \/ \E names \in LeafLists : QueryBudget /\ LeafFor(names) /\ Recorded

SpecLeaf == Init /\ [][NextLeaf]_vars

\* The two loads and least_common_ancestor calls on the leaves, in any order
NextRebuild ==
    \/ RegisterAgain
    \/ \E s1, s2 \in {"C", "D"} :
           QueryBudget /\ LeastCommonAncestor(s1, s2) /\ Recorded

SpecRebuild == Init /\ [][NextRebuild]_vars

\* A chart as wide as the caches are large: the compound state A and as
\* many children of A as an lru_cache holds entries
Wide == lru_maxsize

child(i) == "c" \o ToString(i)

\* The builder registers A, then the children one after the other
RegisterWide ==
    /\ calls.register_state <= Wide
    /\ IF calls.register_state = 0
       THEN register_state("A", CompoundState, None)
       ELSE register_state(child(calls.register_state), BasicState, "A")
    /\ Forgotten

\* The children whose descendants the caller asked for since the last
\* registration
asked == {i \in 1..Wide : <<"descendants_for", <<child(i)>>>> \in DOMAIN answered}

\* The interpreter asks for the descendants of A once A is registered and
\* again once the chart is complete, before and after it asked for those
\* of the children, and never twice in a row
QueryRoot ==
    /\ calls.register_state \in {1, Wide + 1}
    /\ asked = {} \/ asked = 1..Wide
    /\ ~(Called("descendants_for") /\ result.args = <<"A">>)
    /\ DescendantsFor("A")
    /\ Recorded

\* The interpreter asks for the descendants of the children of the complete
\* chart, one after the other
QueryChild ==
    /\ calls.register_state = Wide + 1
    /\ Cardinality(asked) < Wide
    /\ DescendantsFor(child(Cardinality(asked) + 1))
    /\ Recorded

NextLarge ==
    \/ RegisterWide
    \/ QueryRoot
    \/ QueryChild

SpecLarge == Init /\ [][NextLarge]_vars

----------------------------------------------------------------------------
(* Properties *)

\* The names reachable from `s` by following the parent map one or more
\* steps, None excluded (a name is added at most once: n rounds suffice)
RECURSIVE UpFrom(_, _)
UpFrom(S, n) ==
    LET step == {parent[x] : x \in S \cap DOMAIN parent} \ {None}
    IN  IF n = 0 THEN {} ELSE step \cup UpFrom(step, n - 1)

ProperAncestors(s) == UpFrom({s}, Cardinality(DOMAIN parent) + 1)

\* The names listed, directly or transitively, among the children of `s`
RECURSIVE DownFrom(_, _)
DownFrom(S, n) ==
    LET step == UNION {{children_of(x)[i] : i \in 1..Len(children_of(x))} :
                         x \in S \cap DOMAIN states}
    IN  IF n = 0 THEN {} ELSE step \cup DownFrom(step, n - 1)

ListedBelow(s) == DownFrom({s}, Cardinality(DOMAIN states) + 1)

\* How often `x` occurs in the list `seq`
Count(seq, x) == Cardinality({i \in 1..Len(seq) : seq[i] = x})

\* What a query computes on the registry as it is now, with empty caches
Fresh(op, args) ==
    CASE op = "ancestors_for" -> ancestors_for(args[1])
      [] op = "descendants_for" -> descendants_for(args[1])
      [] op = "depth_of" -> depth_of(<<>>, args[1]).out
      [] op = "least_common_ancestor" ->
             least_common_ancestor(<<>>, args[1], args[2]).out

MemoizedQueries ==
    {"ancestors_for", "descendants_for", "depth_of", "least_common_ancestor"}

\* C1: every value a memoized query returns is the value a fresh
\* computation over the parent map and the children lists of that moment
\* returns: no result memoized before a later registration is handed out
\* once that registration changed the answer.
C1_NoStaleResult ==
    (result.op \in MemoizedQueries /\ result.outcome = "ok") =>
        LET fresh == Fresh(result.op, result.args)
        IN  fresh.outcome = "ok" /\ fresh.value = result.value

\* C2: a register_state call for a name that is already registered fails,
\* and leaves the state map, the parent map and every children list as they
\* were.
C2_DuplicateRejected ==
    [][(calls'.register_state # calls.register_state
          /\ result'.args[1] \in DOMAIN states)
        => (/\ result'.outcome # "ok"
            /\ states' = states
            /\ parent' = parent
            /\ children' = children)]_vars

\* C3: a register_transition call whose from_state is not the name of a
\* registered state raises the state-not-found error (Python's KeyError
\* from self.states[...]) instead of returning.  register_transition leaves
\* the keys of the state map alone, so they are the keys the call saw.
C3_UnknownSourceFails ==
    (Called("register_transition") /\ result.args[1] \notin DOMAIN states)
        => result.outcome = "KeyError"

\* C3 witness: a transition from an unregistered name was refused while
\* another state was registered
C3_Witness ==
    /\ Called("register_transition")
    /\ result.args[1] \notin DOMAIN states
    /\ DOMAIN states # {}
    /\ result.outcome = "KeyError"

\* C4: the transition list holds no transition whose from_state names a
\* registered Final or History state.
C4_NoTransitionFromFinal ==
    \A i \in 1..Len(transitions) :
        transitions[i].from_state \in DOMAIN states =>
            states[transitions[i].from_state].kind \notin {FinalState, HistoryState}

\* C5: the parent map and the children lists agree: a state recorded with a
\* parent name is listed exactly once, in the children of that (registered,
\* composite) parent; a state recorded without a parent is listed exactly
\* once, in the top-level list.
C5_ParentMatchesChildren ==
    \A s \in DOMAIN states :
        LET elsewhere(p) == \A q \in DOMAIN states \ {p} : Count(children_of(q), s) = 0
        IN  IF Truthy(parent[s])
            THEN /\ parent[s] \in DOMAIN states
                 /\ states[parent[s]].kind \in CompositeStateMixin
                 /\ Count(states[parent[s]].children, s) = 1
                 /\ elsewhere(parent[s])
                 /\ Count(children, s) = 0
            ELSE /\ Count(children, s) = 1
                 /\ \A q \in DOMAIN states : Count(children_of(q), s) = 0

\* C6: the parent relation is acyclic: no registered state is reached from
\* itself by following the parent map, none is listed below itself.
C6_Acyclic ==
    \A s \in DOMAIN states :
        /\ s \notin ProperAncestors(s)
        /\ s \notin ListedBelow(s)

\* C7: ancestors_for and descendants_for of a registered state terminate,
\* after at most as many loop iterations as there are registered states.
C7_QueriesTerminate ==
    (result.op \in {"ancestors_for", "descendants_for"}
       /\ result.args[1] \in DOMAIN states)
        => /\ result.outcome # Diverges
           /\ result.iters <= Cardinality(DOMAIN states)

\* C8: to_dict leaves the top-level children list and the children list of
\* every state as they were.
C8_ToDictReadOnly ==
    [][calls'.to_dict # calls.to_dict
        => /\ children' = children
           /\ \A s \in DOMAIN states : states'[s].children = states[s].children]_vars

\* C9: in a valid registry ancestors_for(s) of a registered s is the chain
\* parent(s), parent(parent(s)), ..., nearest first, up to a top-level
\* state: empty for a top-level s, without s and without the root.
C9_AncestorsAreParentChain ==
    (Called("ancestors_for") /\ result.args[1] \in DOMAIN states) =>
        /\ result.outcome = "ok"
        /\ LET s == result.args[1]
               a == result.value
           IN  /\ (a = <<>>) <=> (parent[s] = None)
               /\ a # <<>> => a[1] = parent[s]
               /\ \A i \in 1..Len(a) - 1 : a[i + 1] = parent[a[i]]
               /\ a # <<>> => /\ parent[a[Len(a)]] = None
                              /\ Count(children, a[Len(a)]) = 1
               /\ \A i \in 1..Len(a) : a[i] \in DOMAIN states \ {s}

\* C9 witness: ancestors_for returned the two ancestors of a state at depth 3
C9_Witness ==
    /\ Called("ancestors_for")
    /\ result.outcome = "ok"
    /\ Len(result.value) = 2

\* C10: in a valid registry descendants_for(s) of a registered s lists
\* exactly the states that have s as a proper ancestor, each once and never
\* s, in non-decreasing depth, and nothing for a state that is not composite.
C10_DescendantsAreSubtree ==
    (Called("descendants_for") /\ result.args[1] \in DOMAIN states) =>
        /\ result.outcome = "ok"
        /\ LET s == result.args[1]
               d == result.value
               depth(x) == Cardinality(ProperAncestors(x))
           IN  /\ {d[i] : i \in 1..Len(d)} = {x \in DOMAIN states : s \in ProperAncestors(x)}
               /\ \A i, j \in 1..Len(d) : i # j => d[i] # d[j]
               /\ \A i \in 1..Len(d) : d[i] # s
               /\ \A i \in 1..Len(d) - 1 : depth(d[i]) <= depth(d[i + 1])
               /\ states[s].kind \notin CompositeStateMixin => d = <<>>

\* C11: in a valid registry least_common_ancestor(s1, s2) of registered
\* states is the deepest common proper ancestor: it is None exactly when
\* there is none, every other common proper ancestor is an ancestor of it,
\* and for s1 = s2 it is the parent.
C11_LcaIsDeepest ==
    (Called("least_common_ancestor")
       /\ result.args[1] \in DOMAIN states /\ result.args[2] \in DOMAIN states) =>
        /\ result.outcome = "ok"
        /\ LET s1 == result.args[1]
               s2 == result.args[2]
               common == ProperAncestors(s1) \cap ProperAncestors(s2)
               lca == result.value
           IN  /\ (lca = None) <=> (common = {})
               /\ lca # None =>
                    /\ lca \in common
                    /\ \A c \in common \ {lca} : c \in ProperAncestors(lca)
               /\ s1 = s2 => lca = parent[s1]

\* C11 witness: the query chose between two common ancestors
C11_Witness ==
    /\ Called("least_common_ancestor")
    /\ result.outcome = "ok"
    /\ result.args[1] \in DOMAIN states /\ result.args[2] \in DOMAIN states
    /\ Cardinality(ProperAncestors(result.args[1])
                     \cap ProperAncestors(result.args[2])) = 2

\* What a call of the memoized query `op` with `args` returns in this state
CallNow(op, args) ==
    CASE op = "ancestors_for" ->
             cached_ancestors_for(cache.ancestors_for, args[1]).out
      [] op = "descendants_for" ->
             lru_cache(cache.descendants_for, args[1], descendants_for(args[1])).out
      [] op = "depth_of" ->
             lru_cache(cache.depth_of, args[1],
                       depth_of(cache.ancestors_for, args[1]).out).out
      [] op = "least_common_ancestor" ->
             lru_cache(cache.least_common_ancestor, <<args[1], args[2]>>,
                       least_common_ancestor(cache.ancestors_for,
                                             args[1], args[2]).out).out
      [] op = "leaf_for" -> leaf_for(cache.descendants_for, args[1]).out

\* C12: least_common_ancestor(a, b) of registered states equals
\* least_common_ancestor(b, a): the value a call returned is the value the
\* call with the arguments exchanged returns in the same state.
C12_LcaSymmetric ==
    (Called("least_common_ancestor") /\ result.outcome = "ok"
       /\ result.args[1] \in DOMAIN states /\ result.args[2] \in DOMAIN states) =>
        LET back == CallNow("least_common_ancestor",
                            <<result.args[2], result.args[1]>>)
        IN  back.outcome = "ok" /\ back.value = result.value

\* C13: for a registered composite state p, every name d that
\* descendants_for(p) returned has p in ancestors_for(d): the call
\* ancestors_for(d) in the same state returns, and its list holds p.
C13_DescendantsHaveAncestor ==
    (Called("descendants_for") /\ result.outcome = "ok"
       /\ result.args[1] \in DOMAIN states
       /\ states[result.args[1]].kind \in CompositeStateMixin) =>
        \A i \in 1..Len(result.value) :
            LET up == CallNow("ancestors_for", <<result.value[i]>>)
            IN  /\ up.outcome = "ok"
                /\ \E j \in 1..Len(up.value) : up.value[j] = result.args[1]

\* The elements of a list
Elements(seq) == {seq[i] : i \in 1..Len(seq)}

C16_UnknownYieldsEmpty ==
    (Called("ancestors_for") /\ result.args[1] \notin DOMAIN states) =>
        IF result.outcome = "ok" THEN result.value = <<>> ELSE FALSE

\* C16: ancestors_for of a name that is not registered, of the absent name
\* (None) or of the empty name raises KeyError and returns nothing; only a
\* registered state without a parent yields the empty sequence.
C16_UnknownRaises ==
    Called("ancestors_for") =>
        /\ result.args[1] \notin DOMAIN states => result.outcome = "KeyError"
        /\ (result.args[1] \in DOMAIN states /\ parent[result.args[1]] = None) =>
               (result.outcome = "ok" /\ result.value = <<>>)

\* C16 at work: the absent name is looked up in a registry that holds states
C16_Witness ==
    /\ Called("ancestors_for") /\ result.args[1] = None
    /\ DOMAIN states # {}
    /\ result.outcome = "KeyError"

\* C17: constructing a Transition raises exactly when to_state and event
\* are both absent; every other construction returns a transition that is
\* internal iff to_state was absent and eventless iff event was absent, so
\* no transition, constructed or registered, is both.
C17_TransitionNeedsTargetOrEvent ==
    /\ Called("Transition") =>
           LET to_state == result.args[2]
               event == result.args[3]
           IN  /\ result.outcome \in {"ok", "ValueError"}
               /\ result.outcome = "ValueError" <=> (to_state = None /\ event = None)
               /\ result.outcome = "ok" =>
                      /\ internal(result.value) <=> to_state = None
                      /\ eventless(result.value) <=> event = None
                      /\ ~(internal(result.value) /\ eventless(result.value))
    /\ \A i \in 1..Len(transitions) :
           ~(internal(transitions[i]) /\ eventless(transitions[i]))

\* C17 at work: a construction without target and event has just failed in
\* a machine that holds a registered transition
C17_Witness ==
    /\ Called("Transition") /\ result.outcome = "ValueError"
    /\ result.args[2] = None /\ result.args[3] = None
    /\ Len(transitions) = 1

\* C18: the machine's transition list and the states' owned lists hold the
\* same transitions: every transition of the machine's list has a registered
\* from_state and is in that state's list, every transition of a state's
\* list is in the machine's list, and a register_transition call that raised
\* added its transition to neither.
C18_TransitionListsAgree ==
    /\ \A i \in 1..Len(transitions) :
           LET t == transitions[i]
           IN  /\ t.from_state \in DOMAIN states
               /\ Count(states[t.from_state].transitions, t) > 0
    /\ \A n \in DOMAIN states :
           \A i \in 1..Len(states[n].transitions) :
               Count(transitions, states[n].transitions[i]) > 0
    /\ (Called("register_transition") /\ result.outcome # "ok") =>
           \A i \in 1..Len(transitions) :
               transitions[i].id # calls.register_transition

AllQueries == MemoizedQueries \cup {"leaf_for"}

\* C19: a call of ancestors_for, descendants_for, depth_of,
\* least_common_ancestor or leaf_for leaves the state map, the parent map,
\* the children lists and the transition lists as they are, and ends as the
\* call of the same query with the same arguments ended before, if there was
\* one since the last registration, whatever was asked in between.
C19_QueriesRepeatable ==
    [][(calls'.query # calls.query /\ result'.op \in AllQueries) =>
          /\ UNCHANGED <<states, parent, children, transitions>>
          /\ LET key == <<result'.op, result'.args>>
             IN  key \in DOMAIN answered =>
                     /\ answered[key].outcome = result'.outcome
                     /\ result'.outcome = "ok" => answered[key].value = result'.value]_vars

============================================================================
